---- MODULE Spec2Model ----
(***************************************************************************)
(* Static interface-naming rules (net/ifrename/static.py).                 *)
(*                                                                         *)
(* A StaticRules object holds `formulae` (target -> (method, value)) and   *)
(* `rules` (the binding records appended by generate).  load_and_parse     *)
(* reads text lines into formulae, write renders formulae as text and      *)
(* generate resolves formulae against a list of NICs.  Text is modelled as *)
(* character strings; the regular expressions are modelled by what they    *)
(* match.                                                                  *)
(***************************************************************************)
EXTENDS Integers, Sequences, FiniteSets, TLC

VARIABLES
    formulae,   \* self.formulae: target -> <<method, value>>
    rules,      \* self.rules: sequence of binding records
    op,         \* the last operation called on the object
    raw_lines,  \* load_and_parse: the lines read by the last call
    pre,        \* self.formulae when the last load_and_parse or write began
    ret,        \* load_and_parse: what the last call returned
    header,     \* write: the header argument of the last call
    res,        \* write: the text the last call returned
    nics,       \* generate: the NIC list (state) of the last call
    preLen,     \* generate: len(self.rules) when the last call began
    nread,      \* lines read so far
    ngen        \* generate calls so far

vars == <<formulae, rules, op, raw_lines, pre, ret, header, res, nics,
          preLen, nread, ngen>>

(***************************************************************************)
(* Bounds                                                                  *)
(***************************************************************************)
MaxRead == 2        \* lines read by one object over all load_and_parse calls
MaxInitLines == 2   \* lines of the file parsed before the resolver runs
MaxNics == 3        \* NICs in the list passed to generate
MaxGenerates == 2   \* generate calls on one object

(***************************************************************************)
(* Characters and strings                                                  *)
(***************************************************************************)
Ch(s, i) == SubSeq(s, i, i)

SetMin(S) == CHOOSE x \in S : \A y \in S : x <= y
SetMax(S) == CHOOSE x \in S : \A y \in S : y <= x

Whitespace == {" ", "\t", "\n", "\r"}
Digits == {"0", "1", "2", "3", "4", "5", "6", "7", "8", "9"}
HexDigits == Digits \cup {"a", "b", "c", "d", "e", "f",
                          "A", "B", "C", "D", "E", "F"}

\* str.strip()
Strip(s) ==
    LET keep == {i \in 1..Len(s) : Ch(s, i) \notin Whitespace}
    IN  IF keep = {} THEN "" ELSE SubSeq(s, SetMin(keep), SetMax(keep))

\* str.startswith(p)
StartsWith(s, p) == Len(s) >= Len(p) /\ SubSeq(s, 1, Len(p)) = p

\* \d+ anchored on the whole of s
AllDigits(s) == Len(s) >= 1 /\ \A i \in 1..Len(s) : Ch(s, i) \in Digits

DigitVal(c) ==
    CASE c = "0" -> 0 [] c = "1" -> 1 [] c = "2" -> 2 [] c = "3" -> 3
      [] c = "4" -> 4 [] c = "5" -> 5 [] c = "6" -> 6 [] c = "7" -> 7
      [] c = "8" -> 8 [] c = "9" -> 9

\* int(s) for a string of decimal digits
RECURSIVE ToInt(_)
ToInt(s) ==
    IF Len(s) = 0 THEN 0
    ELSE 10 * ToInt(SubSeq(s, 1, Len(s) - 1)) + DigitVal(Ch(s, Len(s)))

\* first index >= i of s that holds no character of set cs (Len(s)+1 if none)
SkipSet(s, i, cs) ==
    LET stop == {j \in i..Len(s) : Ch(s, j) \notin cs}
    IN  IF stop = {} THEN Len(s) + 1 ELSE SetMin(stop)

(***************************************************************************)
(* Validators                                                              *)
(***************************************************************************)
\* xcp.net.mac.VALID_COLON_MAC: six colon-separated two-digit hex octets
VALID_MAC(v) ==
    /\ Len(v) = 17
    /\ \A i \in 1..17 :
          IF i \in {3, 6, 9, 12, 15} THEN Ch(v, i) = ":"
          ELSE Ch(v, i) \in HexDigits

\* xcp.pci.VALID_SBDF: domain:bus:device.function
VALID_PCI(v) ==
    /\ Len(v) = 12
    /\ \A i \in 1..12 :
          IF i \in {5, 8} THEN Ch(v, i) = ":"
          ELSE IF i = 11 THEN Ch(v, i) = "."
          ELSE Ch(v, i) \in HexDigits

\* \d+p\d+ anchored on the whole of s
DigitsPDigits(s) ==
    \E k \in 2..(Len(s) - 1) :
        /\ Ch(s, k) = "p"
        /\ AllDigits(SubSeq(s, 1, k - 1))
        /\ AllDigits(SubSeq(s, k + 1, Len(s)))

\* ^(?:em\d+|p(?:ci)?\d+p\d+)$
VALID_PPN(v) ==
    \/ StartsWith(v, "em") /\ AllDigits(SubSeq(v, 3, Len(v)))
    \/ StartsWith(v, "pci") /\ DigitsPDigits(SubSeq(v, 4, Len(v)))
    \/ StartsWith(v, "p") /\ DigitsPDigits(SubSeq(v, 2, Len(v)))

methods == {"mac", "pci", "ppn", "label", "guess"}

validatorKeys == {"mac", "pci", "ppn"}

\* StaticRules.validators[k].match(v) is not None
validators(k, v) ==
    CASE k = "mac" -> VALID_MAC(v)
      [] k = "pci" -> VALID_PCI(v)
      [] k = "ppn" -> VALID_PPN(v)

\* the orders in which iteritems() may walk the validators dictionary
ValidatorOrders ==
    {o \in [1..3 -> validatorKeys] : \A i, j \in 1..3 : i # j => o[i] # o[j]}

(***************************************************************************)
(* load_and_parse                                                          *)
(***************************************************************************)
NoMatch == [ok |-> FALSE, target |-> "", hasMethod |-> FALSE, method |-> "",
            val |-> ""]

\* VALID_LINE.match(s):
\*   ^\s*(?P<target>eth\d+)\s*(?::\s*(?P<method>[^=]+?))?\s*=\s*(?P<val>.+)$
\* The method group is returned stripped (the code strips it anyway); the
\* val group is returned without the blanks that \s* consumed before it.
VALID_LINE(s) ==
    LET n  == Len(s)
        p0 == SkipSet(s, 1, Whitespace)
        d0 == p0 + 3
        d1 == SkipSet(s, d0, Digits)
        p1 == SkipSet(s, d1, Whitespace)
        colon == p1 <= n /\ Ch(s, p1) = ":"
        eqs == {j \in p1..n : Ch(s, j) = "="}
        q  == IF eqs = {} THEN n + 1 ELSE SetMin(eqs)
        v0 == SkipSet(s, q + 1, Whitespace)
    IN  IF /\ p0 + 2 <= n
           /\ SubSeq(s, p0, p0 + 2) = "eth"
           /\ d1 > d0
           /\ q <= n
           /\ IF colon THEN q > p1 + 1 ELSE q = p1
           /\ v0 <= n
           /\ \A j \in v0..n : Ch(s, j) # "\n"
        THEN [ok |-> TRUE,
              target |-> SubSeq(s, p0, d1 - 1),
              hasMethod |-> colon,
              method |-> IF colon THEN Strip(SubSeq(s, p1 + 1, q - 1)) ELSE "",
              val |-> SubSeq(s, v0, n)]
        ELSE NoMatch

Quotes == {"'", "\""}

\* value[0] == value[-1] and value[0] in ("'", '"')
IsQuoted(value) ==
    /\ Len(value) >= 1
    /\ Ch(value, 1) = Ch(value, Len(value))
    /\ Ch(value, 1) \in Quotes

\* value[1:-1]
Unquote(value) == SubSeq(value, 2, Len(value) - 1)

\* lines 162-167: the value of a line, quotes stripped
LineValue(val) ==
    LET value == Strip(val)
    IN  IF IsQuoted(value)
        THEN IF Unquote(value) = "guess" THEN "label" ELSE Unquote(value)
        ELSE value

\* GuessMethod without the loop over the validators
GuessMethodAlwaysLabel(value, ord) == "label"

\* lines 176-183: the first validator, in iteration order ord, that matches
GuessMethod(value, ord) ==
    LET hits == {i \in 1..3 : validators(ord[i], value)}
    IN  IF hits = {} THEN "label" ELSE ord[SetMin(hits)]

\* lines 198-201: old-style ppn (pciXpY) becomes new-style (pXpY)
TranslatePpn(method, value) ==
    IF method = "ppn" /\ StartsWith(value, "pci")
    THEN "p" \o SubSeq(value, 4, Len(value))
    ELSE value

Skipped == [ok |-> FALSE, target |-> "", method |-> "", value |-> ""]

\* LineFormula without the test of the value against the method's validator
LineFormulaUnchecked(line, ord) ==
    LET g == VALID_LINE(line)
        method0 == IF g.hasMethod THEN Strip(g.method) ELSE "guess"
        value == LineValue(g.val)
        method == IF method0 = "guess" THEN GuessMethod(value, ord)
                  ELSE method0
    IN  IF ~g.ok THEN Skipped
        ELSE IF method0 \notin methods THEN Skipped
        ELSE [ok |-> TRUE, target |-> Strip(g.target), method |-> method,
              value |-> TranslatePpn(method, value)]

\* lines 143-206 for one stripped line: the formula it stores, if any
LineFormula(line, ord) ==
    LET g == VALID_LINE(line)
        target == Strip(g.target)
        method0 == IF g.hasMethod THEN Strip(g.method) ELSE "guess"
        value == LineValue(g.val)
        method == IF method0 = "guess" THEN GuessMethod(value, ord)
                  ELSE method0
    IN  IF ~g.ok THEN Skipped
        ELSE IF method0 \notin methods THEN Skipped
        ELSE IF /\ method0 # "guess"
                /\ method0 \in validatorKeys
                /\ ~validators(method0, value)
             THEN Skipped
        ELSE [ok |-> TRUE, target |-> target, method |-> method,
              value |-> TranslatePpn(method, value)]

\* lines 138-139: blank lines and comments are dropped
IsRuleLine(l) == Len(Strip(l)) > 0 /\ Ch(Strip(l), 1) # "#"

EmptyFormulae == [t \in {} |-> <<"", "">>]

\* Put that keeps the formula a target already has
PutKeepOld(f, target, mv) ==
    [t \in DOMAIN f \cup {target} |-> IF t \in DOMAIN f THEN f[t] ELSE mv]

\* self.formulae[target] = (method, value)
Put(f, target, mv) ==
    [t \in DOMAIN f \cup {target} |-> IF t = target THEN mv ELSE f[t]]

\* lines 142-206: the loop over the lines of the source
RECURSIVE ParseLines(_, _, _)
ParseLines(f, ls, ord) ==
    IF Len(ls) = 0 THEN f
    ELSE LET r == LineFormula(Strip(Head(ls)), ord)
             f1 == IF IsRuleLine(Head(ls)) /\ r.ok
                   THEN Put(f, r.target, <<r.method, r.value>>)
                   ELSE f
         IN  ParseLines(f1, Tail(ls), ord)

(***************************************************************************)
(* write                                                                   *)
(***************************************************************************)
SAVE_HEADER ==
    "# Static rules.  Autogenerated by the installer from the answerfile or previous install\n"
    \o "# WARNING - rules in this file override the 'lastboot' assignment of names,\n"
    \o "#           so editing it may cause unexpected renaming on next boot\n"
    \o "\n"
    \o "# Rules are of the form:\n"
    \o "#   target name: id method = \"value\"\n"
    \o "\n"
    \o "# target name must be in the form eth*\n"
    \o "# id methods are:\n"
    \o "#   mac: value should be the mac address of a device (e.g. DE:AD:C0:DE:00:00)\n"
    \o "#   pci: value should be the pci bus location of the device (e.g. 0000:01:01.1)\n"
    \o "#   ppn: value should be the result of the biosdevname physical naming policy of a device (e.g. p1p1)\n"
    \o "#   label: value should be the SMBios label of a device (for SMBios 2.6 or above)\n"
    \o "\n"

\* SortKey that reads one digit only: int(x[3:4])
SortKeyFirstDigit(x) == ToInt(SubSeq(x, 4, 4))

\* int(x[3:])
SortKey(x) == ToInt(SubSeq(x, 4, Len(x)))

\* lines 305-307: the keys starting with eth, sorted by SortKey.  The list is
\* built from a set, whose iteration order is arbitrary, and the sort is
\* stable: keys with equal SortKey may come out in either order.
SortedKeys(f) ==
    LET ks == {x \in DOMAIN f : StartsWith(x, "eth")}
        n  == Cardinality(ks)
    IN  {k \in [1..n -> ks] :
            /\ \A i, j \in 1..n : i # j => k[i] # k[j]
            /\ \A i, j \in 1..n : i < j => SortKey(k[i]) <= SortKey(k[j])}

\* lines 312-321: the entries write does not skip
Writable(method, value) ==
    /\ method \in methods
    /\ method \in validatorKeys => validators(method, value)

\* line 323: "%s:%s=\"%s\"\n" % (target, method, value)
FormatLine(target, method, value) ==
    target \o ":" \o method \o "=\"" \o value \o "\"\n"

\* lines 309-323: the loop over the sorted keys
RECURSIVE WriteKeys(_, _)
WriteKeys(f, keys) ==
    IF Len(keys) = 0 THEN ""
    ELSE LET target == Head(keys)
             method == f[target][1]
             value  == f[target][2]
         IN  (IF Writable(method, value)
              THEN FormatLine(target, method, value) ELSE "")
             \o WriteKeys(f, Tail(keys))

\* write(header) for one order of the keys
write(f, keys, hdr) ==
    (IF hdr THEN SAVE_HEADER ELSE "") \o WriteKeys(f, keys)

\* readlines(): the text cut after each newline
RECURSIVE ReadLines(_)
ReadLines(text) ==
    LET nl == {i \in 1..Len(text) : Ch(text, i) = "\n"}
    IN  IF Len(text) = 0 THEN <<>>
        ELSE IF nl = {} THEN <<text>>
        ELSE <<SubSeq(text, 1, SetMin(nl))>>
             \o ReadLines(SubSeq(text, SetMin(nl) + 1, Len(text)))

(***************************************************************************)
(* generate                                                                *)
(***************************************************************************)
None == "<None>"

\* the field of a NIC that a method compares with the formula's value
Field(nic, method) ==
    CASE method = "mac" -> nic.mac
      [] method = "ppn" -> nic.ppn
      [] method = "pci" -> nic.pci
      [] method = "label" -> nic.label

\* MACPCI(mac, pci, tname=target) does not raise
MACPCI_ok(mac, pci) == VALID_MAC(mac) /\ VALID_PCI(pci)

MACPCI(mac, pci, tname) == [mac |-> mac, pci |-> pci, tname |-> tname]

\* ppn_quirks that compares the set of ppns with itself
ppn_quirksNever(state) ==
    LET ppns == {state[i].ppn : i \in {j \in 1..Len(state) : state[j].ppn # None}}
    IN  Cardinality(ppns) # Cardinality(ppns)

\* lines 217-218
ppn_quirks(state) ==
    LET ppns == SelectSeq([i \in 1..Len(state) |-> state[i].ppn],
                          LAMBDA x : x # None)
    IN  Len(ppns) # Cardinality({ppns[i] : i \in 1..Len(ppns)})

\* ScanNics that leaves the loop when the constructor raises
RECURSIVE ScanNicsStop(_, _, _, _, _)
ScanNicsStop(target, method, value, state, i) ==
    IF i > Len(state) THEN <<>>
    ELSE IF Field(state[i], method) = value
         THEN IF MACPCI_ok(state[i].mac, state[i].pci)
              THEN <<MACPCI(state[i].mac, state[i].pci, target)>>
              ELSE <<>>
         ELSE ScanNicsStop(target, method, value, state, i + 1)

\* ScanNics that walks the NIC list backwards
RECURSIVE ScanNicsLast(_, _, _, _, _)
ScanNicsLast(target, method, value, state, i) ==
    LET k == Len(state) + 1 - i
    IN  IF i > Len(state) THEN <<>>
        ELSE IF Field(state[k], method) = value
             THEN IF MACPCI_ok(state[k].mac, state[k].pci)
                  THEN <<MACPCI(state[k].mac, state[k].pci, target)>>
                  ELSE ScanNicsLast(target, method, value, state, i + 1)
             ELSE ScanNicsLast(target, method, value, state, i + 1)

\* ScanNics without the break after the append
RECURSIVE ScanNicsAll(_, _, _, _, _)
ScanNicsAll(target, method, value, state, i) ==
    IF i > Len(state) THEN <<>>
    ELSE (IF /\ Field(state[i], method) = value
             /\ MACPCI_ok(state[i].mac, state[i].pci)
          THEN <<MACPCI(state[i].mac, state[i].pci, target)>>
          ELSE <<>>)
         \o ScanNicsAll(target, method, value, state, i + 1)

\* the inner loop "for nic in state" from NIC i on: the records it appends
RECURSIVE ScanNics(_, _, _, _, _)
ScanNics(target, method, value, state, i) ==
    IF i > Len(state) THEN <<>>
    ELSE IF Field(state[i], method) = value
         THEN IF MACPCI_ok(state[i].mac, state[i].pci)
              THEN <<MACPCI(state[i].mac, state[i].pci, target)>>
              ELSE ScanNics(target, method, value, state, i + 1)
         ELSE ScanNics(target, method, value, state, i + 1)

\* lines 226-296 for one formula: the records it appends
FormulaRules(target, method, value, state) ==
    IF method = "ppn" /\ ppn_quirks(state) THEN <<>>
    ELSE IF method \in {"mac", "ppn", "pci", "label"}
         THEN ScanNics(target, method, value, state, 1)
         ELSE <<>>

\* the orders in which iteritems() may walk self.formulae
IterOrders(f) ==
    LET n == Cardinality(DOMAIN f)
    IN  {k \in [1..n -> DOMAIN f] : \A i, j \in 1..n : i # j => k[i] # k[j]}

\* lines 224-296: the loop over the formulae, in iteration order keys
RECURSIVE GenerateRules(_, _, _)
GenerateRules(f, keys, state) ==
    IF Len(keys) = 0 THEN <<>>
    ELSE FormulaRules(Head(keys), f[Head(keys)][1], f[Head(keys)][2], state)
         \o GenerateRules(f, Tail(keys), state)

(***************************************************************************)
(* Inputs                                                                  *)
(***************************************************************************)
\* lines a rules file may hold
SourceLines ==
    { "eth1:mac=\"DE:AD:C0:DE:00:00\"\n",
      "eth2=00:de:ad:be:ef:00\n",
      "eth2:pci=\"0000:01:01.1\"\n",
      "eth10 = 0000:01:01.1\n",
      "eth2 : ppn = 'pci1p1'\n",
      "eth10=em1\n",
      "eth10:ppn=\"p1p1\"\n",
      "eth01:label=\"Slot3 NIC\"\n",
      "eth1:label=\"guess\"\n",
      "eth01:label=guess\n",
      "eth2=\"guess\"\n",
      "eth1:mac=\"not-a-mac\"\n",
      "eth10:ppn=\"eth0\"\n",
      "eth2:bogus=\"x\"\n",
      "wlan0:mac=\"DE:AD:C0:DE:00:00\"\n",
      "# eth1:label=\"x\"\n" }

\* the sequences of at most n elements of S
SeqsUpTo(S, n) == UNION {[1..k -> S] : k \in 0..n}

\* lines of the rules file the resolver is run on
ResolverLines ==
    { "eth1:mac=\"DE:AD:C0:DE:00:00\"\n",
      "eth10=00:de:ad:be:ef:00\n",
      "eth2:pci=\"0000:01:01.1\"\n",
      "eth10:ppn=\"p1p1\"\n",
      "eth2 : ppn = 'pci2p1'\n",
      "eth1:label=\"Slot3 NIC\"\n" }

\* NIC descriptors; the last two are refused by the MACPCI constructor
Nics ==
    { [mac |-> "DE:AD:C0:DE:00:00", pci |-> "0000:01:01.1", ppn |-> "p1p1",
       label |-> "Slot3 NIC"],
      [mac |-> "DE:AD:C0:DE:00:00", pci |-> "0000:02:00.0", ppn |-> "p2p1",
       label |-> "Slot3 NIC"],
      [mac |-> "00:de:ad:be:ef:00", pci |-> "0000:01:01.1", ppn |-> "p1p1",
       label |-> ""],
      [mac |-> "DE:AD:C0:DE:00:00", pci |-> "bad", ppn |-> None,
       label |-> "Slot3 NIC"],
      [mac |-> "bad", pci |-> "0000:01:01.1", ppn |-> "p2p1",
       label |-> "x"] }

(***************************************************************************)
(* The object                                                              *)
(***************************************************************************)
\* __init__, lines 94-99
Init ==
    /\ formulae = EmptyFormulae
    /\ rules = <<>>
    /\ op = "init"
    /\ raw_lines = <<>>
    /\ pre = EmptyFormulae
    /\ ret = TRUE
    /\ header = FALSE
    /\ res = ""
    /\ nics = <<>>
    /\ preLen = 0
    /\ nread = 0
    /\ ngen = 0

\* load_and_parse with a readable source holding the lines ls
LoadAndParse(ls, ord) ==
    /\ nread + Len(ls) <= MaxRead
    /\ formulae' = ParseLines(formulae, ls, ord)
    /\ op' = "load_and_parse"
    /\ raw_lines' = ls
    /\ pre' = formulae
    /\ ret' = TRUE
    /\ header' = FALSE
    /\ res' = ""
    /\ nread' = nread + Len(ls)
    /\ UNCHANGED <<rules, nics, preLen, ngen>>

\* load_and_parse with no source, a missing path or a failing read
LoadUnavailable ==
    /\ op' = "load_unavailable"
    /\ raw_lines' = <<>>
    /\ pre' = formulae
    /\ ret' = FALSE
    /\ header' = FALSE
    /\ res' = ""
    /\ UNCHANGED <<formulae, rules, nics, preLen, nread, ngen>>

\* write(header)
Write(hdr, keys) ==
    /\ res' = write(formulae, keys, hdr)
    /\ op' = "write"
    /\ header' = hdr
    /\ raw_lines' = <<>>
    /\ pre' = formulae
    /\ ret' = TRUE
    /\ UNCHANGED <<formulae, rules, nics, preLen, nread, ngen>>

\* generate(state)
Generate(state, keys) ==
    /\ ngen < MaxGenerates
    /\ rules' = rules \o GenerateRules(formulae, keys, state)
    /\ op' = "generate"
    /\ nics' = state
    /\ preLen' = Len(rules)
    /\ ngen' = ngen + 1
    /\ UNCHANGED <<formulae, raw_lines, pre, ret, header, res, nread>>

Next ==
    \/ \E ls \in SeqsUpTo(SourceLines, MaxRead - nread),
          ord \in ValidatorOrders :
          LoadAndParse(ls, ord)
    \/ LoadUnavailable
    \/ \E hdr \in BOOLEAN, keys \in SortedKeys(formulae) : Write(hdr, keys)

\* the parser and the serializer; generate neither reads what they write
\* (raw_lines, res) nor changes formulae, and is analysed in SpecResolver
Spec == Init /\ [][Next]_vars

\* an object that has parsed a rules file of ResolverLines
InitResolver ==
    /\ \E ls \in SeqsUpTo(ResolverLines, MaxInitLines),
          ord \in ValidatorOrders :
            formulae = ParseLines(EmptyFormulae, ls, ord)
    /\ rules = <<>>
    /\ op = "load_and_parse"
    /\ raw_lines = <<>>
    /\ pre = EmptyFormulae
    /\ ret = TRUE
    /\ header = FALSE
    /\ res = ""
    /\ nics = <<>>
    /\ preLen = 0
    /\ nread = 0
    /\ ngen = 0

\* the NIC lists generate is called with: one snapshot per object
StateArgs == IF ngen = 0 THEN SeqsUpTo(Nics, MaxNics) ELSE {nics}

NextResolver ==
    \E state \in StateArgs, keys \in IterOrders(formulae) :
        Generate(state, keys)

\* the resolver
SpecResolver == InitResolver /\ [][NextResolver]_vars

(***************************************************************************)
(* Vocabulary of the properties                                            *)
(***************************************************************************)
Loaded == op = "load_and_parse"

\* the groups of line i of the last load
Groups(i) == VALID_LINE(Strip(raw_lines[i]))

\* line i is neither blank nor a comment and matches the grammar
Matches(i) == IsRuleLine(raw_lines[i]) /\ Groups(i).ok

\* the value of a line with one pair of matching surrounding quotes removed
QuoteStripped(val) ==
    IF IsQuoted(Strip(val)) THEN Unquote(Strip(val)) ELSE Strip(val)

\* line i is rejected for its content: unknown method, or a value that its
\* explicit method's validator refuses
Rejected(i) ==
    /\ Matches(i)
    /\ Groups(i).hasMethod
    /\ \/ Groups(i).method \notin methods
       \/ /\ Groups(i).method \in validatorKeys
          /\ ~validators(Groups(i).method, QuoteStripped(Groups(i).val))

\* line i stores a formula
Accepted(i) ==
    /\ IsRuleLine(raw_lines[i])
    /\ \E ord \in ValidatorOrders : LineFormula(Strip(raw_lines[i]), ord).ok

\* the lines of the last load that store a formula for target t
LinesFor(t) == {i \in 1..Len(raw_lines) : Accepted(i) /\ Groups(i).target = t}

\* <<method, value>> is a formula line i may store
StoredBy(i, mv) ==
    \E ord \in ValidatorOrders :
        LET r == LineFormula(Strip(raw_lines[i]), ord)
        IN  r.ok /\ mv = <<r.method, r.value>>

\* the targets named by the accepted lines of the last load
LoadedTargets == {Groups(i).target : i \in {j \in 1..Len(raw_lines) : Accepted(j)}}

(***************************************************************************)
(* C1: in load_and_parse, a line whose value, quotes stripped, is guess    *)
(* stores the formula (label, guess) for its target.                       *)
(***************************************************************************)
C1_QuotedGuessIsLabelGuess ==
    Loaded =>
        \A i \in 1..Len(raw_lines) :
            ( /\ Matches(i)
              /\ QuoteStripped(Groups(i).val) = "guess"
              /\ \A j \in (i + 1)..Len(raw_lines) :
                    ~(Matches(j) /\ Groups(j).target = Groups(i).target) )
            => /\ Groups(i).target \in DOMAIN formulae
               /\ formulae[Groups(i).target] = <<"label", "guess">>

(***************************************************************************)
(* C3: text written without header, parsed into an empty object, gives     *)
(* back the FormulaSet it was written from.                                *)
(***************************************************************************)
C3_RoundTrip ==
    ( /\ op = "write"
      /\ ~header
      /\ \A t \in DOMAIN formulae :
            /\ formulae[t][1] \in {"mac", "pci", "ppn", "label"}
            /\ formulae[t][1] \in validatorKeys
                  => validators(formulae[t][1], formulae[t][2]) )
    => \A ord \in ValidatorOrders :
          ParseLines(EmptyFormulae, ReadLines(res), ord) = formulae

(***************************************************************************)
(* C4: the targets of the lines write emits are strictly increasing by the *)
(* integer value of the digits after eth.                                  *)
(***************************************************************************)
\* the integer value of the digits after eth
SuffixValue(t) == ToInt(SubSeq(t, 4, Len(t)))

\* the targets of the rule lines of the text last written, in order
EmittedTargets ==
    LET ls == SelectSeq(ReadLines(res),
                        LAMBDA l : IsRuleLine(l) /\ VALID_LINE(Strip(l)).ok)
    IN  [i \in 1..Len(ls) |-> VALID_LINE(Strip(ls[i])).target]

C4_StrictlyIncreasing ==
    op = "write" =>
        \A i, j \in 1..Len(EmittedTargets) :
            i < j => SuffixValue(EmittedTargets[i]) < SuffixValue(EmittedTargets[j])

\* C4, amended: the targets of the emitted lines are non-decreasing by the
\* integer value of the digits after eth and no target is emitted twice;
\* two lines have the same numeric value only when their targets differ in
\* leading zeros.
C4_NonDecreasingDistinct ==
    op = "write" =>
        \A i, j \in 1..Len(EmittedTargets) :
              i < j => /\ SuffixValue(EmittedTargets[i])
                            <= SuffixValue(EmittedTargets[j])
                       /\ EmittedTargets[i] # EmittedTargets[j]

C4_Witness ==
    /\ op = "write"
    /\ \E i, j \in 1..Len(EmittedTargets) :
          i < j /\ EmittedTargets[i] = "eth2" /\ EmittedTargets[j] = "eth10"

(***************************************************************************)
(* C7: a line rejected for its content adds and changes nothing; the other *)
(* lines are processed as if it were absent and the call returns true.     *)
(***************************************************************************)
\* the lines of the last load without the rejected ones
RECURSIVE Kept(_)
Kept(i) ==
    IF i > Len(raw_lines) THEN <<>>
    ELSE (IF Rejected(i) THEN <<>> ELSE <<raw_lines[i]>>) \o Kept(i + 1)

C7_RejectionIsSkipOnly ==
    Loaded =>
        /\ ret = TRUE
        /\ \A i \in 1..Len(raw_lines) : Rejected(i) => ~Accepted(i)
        /\ \E ord \in ValidatorOrders : formulae = ParseLines(pre, Kept(1), ord)
        /\ (\A i \in 1..Len(raw_lines) : Rejected(i) \/ ~IsRuleLine(raw_lines[i]))
              => formulae = pre

C7_Witness ==
    /\ Loaded
    /\ \E i, j \in 1..Len(raw_lines) :
          /\ j < i
          /\ Rejected(i)
          /\ Accepted(j)
          /\ Groups(j).target = Groups(i).target
          /\ Groups(i).target \in DOMAIN formulae
          /\ StoredBy(j, formulae[Groups(i).target])

(***************************************************************************)
(* C8: after load_and_parse each target holds the formula of the last      *)
(* accepted line naming it; targets no accepted line names keep theirs.    *)
(***************************************************************************)
C8_LastLineWins ==
    Loaded =>
        /\ DOMAIN formulae = DOMAIN pre \cup LoadedTargets
        /\ \A t \in DOMAIN formulae :
              IF LinesFor(t) = {} THEN formulae[t] = pre[t]
              ELSE StoredBy(SetMax(LinesFor(t)), formulae[t])

C8_Witness ==
    /\ Loaded
    /\ \E t \in DOMAIN formulae : \E i, j \in LinesFor(t) :
          /\ i < j
          /\ ~StoredBy(i, formulae[t])
          /\ StoredBy(j, formulae[t])

(***************************************************************************)
(* C9: a line without method stores a method of {mac, pci, ppn} whose      *)
(* validator matches the value, or label when none matches; no formula     *)
(* ever has the method guess.                                              *)
(***************************************************************************)
C9_MethodInference ==
    /\ \A t \in DOMAIN formulae :
          formulae[t][1] \in {"mac", "pci", "ppn", "label"}
    /\ Loaded =>
          \A t \in LoadedTargets :
              ~Groups(SetMax(LinesFor(t))).hasMethod =>
                  \/ /\ formulae[t][1] \in validatorKeys
                     /\ validators(formulae[t][1], formulae[t][2])
                  \/ /\ formulae[t][1] = "label"
                     /\ \A k \in validatorKeys : ~validators(k, formulae[t][2])

C9_Witness ==
    /\ Loaded
    /\ \E t \in LoadedTargets :
          /\ ~Groups(SetMax(LinesFor(t))).hasMethod
          /\ formulae[t] = <<"mac", "00:de:ad:be:ef:00">>

(***************************************************************************)
(* Vocabulary of the resolver's properties                                 *)
(***************************************************************************)
Generated == op = "generate"

\* the records the last generate call appended
NewRules == SubSeq(rules, preLen + 1, Len(rules))

\* the records among rs bound to target t
RecordsFor(rs, t) == SelectSeq(rs, LAMBDA r : r.tname = t)

\* the NICs of the last call whose field equals the value of t's formula
Matching(t) ==
    {i \in 1..Len(nics) : Field(nics[i], formulae[t][1]) = formulae[t][2]}

\* the constructor accepts NIC i of the last call
Constructs(i) == MACPCI_ok(nics[i].mac, nics[i].pci)

\* two NICs of the last call share a ppn that is not None
SharedPpn ==
    \E i, j \in 1..Len(nics) :
        i # j /\ nics[i].ppn # None /\ nics[i].ppn = nics[j].ppn

\* the formula of t is a ppn formula skipped for ppn quirks
Suppressed(t) == formulae[t][1] = "ppn" /\ SharedPpn

\* the record of NIC i for target t
RecordOf(i, t) == [mac |-> nics[i].mac, pci |-> nics[i].pci, tname |-> t]

\* the matching NICs of t that the constructor accepts
Bindable(t) == {i \in Matching(t) : Constructs(i)}

\* the last call bound t to the first bindable NIC, or to none if there is none
BoundToFirstBindable(t) ==
    IF Bindable(t) = {} THEN RecordsFor(NewRules, t) = <<>>
    ELSE RecordsFor(NewRules, t) = <<RecordOf(SetMin(Bindable(t)), t)>>

(***************************************************************************)
(* C2: when the constructor fails for the first NIC whose field equals the *)
(* formula's value, the formula yields no binding record.                  *)
(***************************************************************************)
C2_NoRecordAfterFailure ==
    Generated =>
        \A t \in DOMAIN formulae :
            (Matching(t) # {} /\ ~Constructs(SetMin(Matching(t))))
                => RecordsFor(NewRules, t) = <<>>

\* C2, amended: when the constructor fails for a NIC whose field equals the
\* formula's value the scan goes on; the formula is bound to the first such
\* NIC that the constructor accepts, and yields no record only when the
\* constructor fails for every such NIC.
C2_ScanContinuesAfterFailure ==
    Generated =>
        \A t \in DOMAIN formulae : ~Suppressed(t) => BoundToFirstBindable(t)

C2_Witness ==
    /\ Generated
    /\ \E t \in DOMAIN formulae :
          /\ ~Suppressed(t)
          /\ Matching(t) # {}
          /\ ~Constructs(SetMin(Matching(t)))
          /\ Bindable(t) # {}
          /\ RecordsFor(NewRules, t) = <<RecordOf(SetMin(Bindable(t)), t)>>

(***************************************************************************)
(* C5: when two NICs share a ppn, no ppn formula yields a record, whatever *)
(* its value; formulas of the other methods are resolved as usual.         *)
(***************************************************************************)
C5_PpnQuirkSuppression ==
    (Generated /\ SharedPpn) =>
        \A t \in DOMAIN formulae :
            IF formulae[t][1] = "ppn" THEN RecordsFor(NewRules, t) = <<>>
            ELSE BoundToFirstBindable(t)

C5_Witness ==
    /\ Generated
    /\ SharedPpn
    /\ \E t, u \in DOMAIN formulae :
          /\ formulae[t][1] = "ppn"
          /\ Cardinality(Bindable(t)) = 1
          /\ RecordsFor(NewRules, t) = <<>>
          /\ formulae[u][1] # "ppn"
          /\ Len(RecordsFor(NewRules, u)) = 1

(***************************************************************************)
(* C6: when the constructor accepts every NIC, a formula that is not       *)
(* suppressed yields one record, of the first NIC whose field equals its   *)
(* value, or none when no NIC matches; two formulas may bind the same NIC. *)
(***************************************************************************)
C6_FirstMatch ==
    (Generated /\ \A i \in 1..Len(nics) : Constructs(i)) =>
        \A t \in DOMAIN formulae :
            ~Suppressed(t) =>
                IF Matching(t) = {} THEN RecordsFor(NewRules, t) = <<>>
                ELSE RecordsFor(NewRules, t)
                        = <<RecordOf(SetMin(Matching(t)), t)>>

C6_Witness ==
    /\ Generated
    /\ preLen = 0
    /\ \A i \in 1..Len(nics) : Constructs(i)
    /\ \E t \in DOMAIN formulae :
          /\ ~Suppressed(t)
          /\ Cardinality(Matching(t)) >= 2
          /\ RecordOf(SetMin(Matching(t)), t) # RecordOf(SetMax(Matching(t)), t)
          /\ rules = <<RecordOf(SetMin(Matching(t)), t)>>

(***************************************************************************)
(* C10: after one or more generate calls with the same formulae and NIC    *)
(* list, rules holds one record per resolved formula, at most one per      *)
(* target.                                                                 *)
(***************************************************************************)
\* the formula of t resolves against the NIC list of the last call
Resolves(t) == ~Suppressed(t) /\ Bindable(t) # {}

C10_OneRecordPerTarget ==
    ngen >= 1 =>
        \A t \in DOMAIN formulae :
            Len(RecordsFor(rules, t)) = IF Resolves(t) THEN 1 ELSE 0

\* C10, amended: generate appends to rules and never clears it; after n
\* generate calls with the same formulae and NIC list, rules holds n records
\* per resolved formula and none for the others, so at most one record per
\* target only after the first call.
C10_RecordsAccumulate ==
    ngen >= 1 =>
        /\ \A t \in DOMAIN formulae :
              Len(RecordsFor(rules, t)) = IF Resolves(t) THEN ngen ELSE 0
        /\ \A k \in 1..Len(rules) : rules[k].tname \in DOMAIN formulae

C10_Witness ==
    /\ ngen = 2
    /\ \E t \in DOMAIN formulae :
          /\ Cardinality(Matching(t)) >= 2
          /\ Len(RecordsFor(rules, t)) = 2

====
